---- MODULE Spec2Model ----
(***************************************************************************)
(* Verification model of twitter_bot.py: one scheduled run that fetches    *)
(* the most-called tokens, asks an LLM for a post, normalises its length   *)
(* and publishes it with bounded retries.                                  *)
(*                                                                         *)
(* The source holds two definitions of safe_tweet_with_retry (line 23 and  *)
(* line 100) and of get_top_tokens (line 74 and line 176).  Both are       *)
(* modelled; which one a run executes is fixed at start (tweetDef,         *)
(* topDef).  Of generate_ai_tweet only the definition at line 95 has its   *)
(* retry handling in the source; the post construction of the definition   *)
(* at line 216 is the same text as lines 233-255.                          *)
(*                                                                         *)
(* Strings are sequences of characters; "NL" stands for the newline        *)
(* character and "LINK" for the code point U+1F517.                        *)
(***************************************************************************)
EXTENDS Integers, Sequences, FiniteSets, TLC

(* ---------------- bounds of the model ---------------- *)
MaxTextLen == 283      \* longest completion body drawn for the LLM
MaxRecords == 4        \* longest provider record list
MaxCalls == 2          \* longest channel_calls list of one record

(* ---------------- program constants ---------------- *)
TweetLimit == 280
WinRateThreshold == 30
TopN == 3
GenMaxRetries == 3
TweetMaxRetries == 3
GenSleep == 5
MinRateWait == 300
RateSlack == 60
OtherSleep == 30

(* ---------------- string helpers ---------------- *)
Whitespace == {" ", "NL"}

Max(a, b) == IF a > b THEN a ELSE b

Min(a, b) == IF a < b THEN a ELSE b

Rep(c, n) == [i \in 1..n |-> c]

\* s[:n] of Python for n >= 0
Prefix(s, n) == SubSeq(s, 1, Min(n, Len(s)))

SetMin(S) == CHOOSE x \in S : \A y \in S : x <= y

Blank(s, lo, hi) == \A j \in lo..hi : s[j] \in Whitespace

\* str.strip(): from the first to the last character that is not whitespace
Strip(s) ==
    IF Blank(s, 1, Len(s)) THEN <<>>
    ELSE LET first == CHOOSE i \in 1..Len(s) : s[i] \notin Whitespace /\ Blank(s, 1, i - 1)
             last == CHOOSE i \in 1..Len(s) : s[i] \notin Whitespace /\ Blank(s, i + 1, Len(s))
         IN  SubSeq(s, first, last)

\* the positions at which pat occurs in s
Occurrences(s, pat) ==
    {i \in 1..(Len(s) - Len(pat) + 1) :
        s[i] = pat[1] /\ SubSeq(s, i, i + Len(pat) - 1) = pat}

\* str.replace(pat, ""): find the next occurrence, copy what precedes it, skip it,
\* and go on behind it
RECURSIVE Remove(_, _)
Remove(s, pat) ==
    IF Occurrences(s, pat) = {} THEN s
    ELSE LET i == SetMin(Occurrences(s, pat))
         IN  SubSeq(s, 1, i - 1) \o Remove(SubSeq(s, i + Len(pat), Len(s)), pat)

LabelTweet == <<"T", "w", "e", "e", "t", ":">>

LabelMain == <<"M", "A", "I", "N", "_", "T", "W", "E", "E", "T", ":">>

Ellipsis == <<".", ".", ".">>

link_to_add ==
    <<"NL", "NL", "LINK", " ", "o", "u", "t", "l", "i", "g", "h", "t", ".", "f", "u", "n">>

max_text_length == TweetLimit - Len(link_to_add)

\* ai_response.strip().replace("Tweet:", "").replace("MAIN_TWEET:", "").strip()
StripLabels(ai_response) ==
    Strip(Remove(Remove(Strip(ai_response), LabelTweet), LabelMain))

TruncateMut(main_tweet) ==
    IF Len(main_tweet) > max_text_length
    THEN Prefix(main_tweet, max_text_length) \o Ellipsis
    ELSE main_tweet

\* if len(main_tweet) > max_text_length: main_tweet = main_tweet[:max_text_length - 3] + "..."
Truncate(main_tweet) ==
    IF Len(main_tweet) > max_text_length
    THEN Prefix(main_tweet, max_text_length - 3) \o Ellipsis
    ELSE main_tweet

NormalizeMut(main_tweet) == Prefix(main_tweet \o link_to_add, TweetLimit)

\* main_tweet += link_to_add
Normalize(main_tweet) == Truncate(main_tweet) \o link_to_add

\* the post built from a non-empty stripped completion
BuildPost(ai_response) == Normalize(StripLabels(ai_response))

(* ---------------- text inputs ---------------- *)
Alphabet == <<"a", "b", "c", "d", "e", "f", "g">>

\* a body of n characters whose content identifies each position modulo 7
Body(n) == [i \in 1..n |-> Alphabet[((i - 1) % Len(Alphabet)) + 1]]

Leads == {<<>>, <<" ">>, LabelTweet, LabelTweet \o <<" ">>, LabelMain,
          <<"NL">> \o LabelMain \o LabelTweet}

Trails == {<<>>, <<" ", "NL">>, LabelTweet}

\* a completion: a lead, a body of n characters, a trail
Completion(l, n, t) == l \o Body(n) \o t

(* ---------------- ranking: get_top_tokens ---------------- *)
\* a call of a record's channel_calls; has_win_rate = FALSE models a missing key
Call(w) == [has_win_rate |-> TRUE, win_rate |-> w]

CallNoKey == [has_win_rate |-> FALSE, win_rate |-> 0]

\* call.get('win_rate', 0)
WinRate(call) == IF call.has_win_rate THEN call.win_rate ELSE 0

\* len([call for call in channel_calls if call.get('win_rate', 0) > 30])
RECURSIVE CountCalls(_)
CountCalls(channel_calls) ==
    IF channel_calls = <<>> THEN 0
    ELSE (IF WinRate(Head(channel_calls)) > WinRateThreshold THEN 1 ELSE 0)
         + CountCalls(Tail(channel_calls))

\* token.get('channel_calls', [])
ChannelCalls(token) == IF token.has_calls THEN token.channel_calls ELSE <<>>

RECURSIVE FilterTokensMut(_)
FilterTokensMut(data) ==
    IF data = <<>> THEN <<>>
    ELSE LET token == Head(data)
             count_calls == CountCalls(ChannelCalls(token))
         IN  (IF count_calls >= 0
              THEN <<[symbol |-> token.symbol, has_calls |-> token.has_calls,
                      channel_calls |-> token.channel_calls,
                      filtered_calls |-> count_calls]>>
              ELSE <<>>) \o FilterTokensMut(Tail(data))

\* the loop of lines 81-88: survivors in provider order, each with filtered_calls
RECURSIVE FilterTokens(_)
FilterTokens(data) ==
    IF data = <<>> THEN <<>>
    ELSE LET token == Head(data)
             count_calls == CountCalls(ChannelCalls(token))
         IN  (IF count_calls > 0
              THEN <<[symbol |-> token.symbol, has_calls |-> token.has_calls,
                      channel_calls |-> token.channel_calls,
                      filtered_calls |-> count_calls]>>
              ELSE <<>>) \o FilterTokens(Tail(data))

RECURSIVE InsertDesc(_, _)

InsertDescMut(sorted, t) ==
    IF sorted = <<>> THEN <<t>>
    ELSE IF Head(sorted).filtered_calls > t.filtered_calls
         THEN <<Head(sorted)>> \o InsertDesc(Tail(sorted), t)
         ELSE <<t>> \o sorted

\* place t behind every element whose key is >= its own
InsertDesc(sorted, t) ==
    IF sorted = <<>> THEN <<t>>
    ELSE IF Head(sorted).filtered_calls >= t.filtered_calls
         THEN <<Head(sorted)>> \o InsertDesc(Tail(sorted), t)
         ELSE <<t>> \o sorted

RECURSIVE SortFrom(_, _)
SortFrom(acc, rest) ==
    IF rest = <<>> THEN acc ELSE SortFrom(InsertDesc(acc, Head(rest)), Tail(rest))

\* sorted(tokens, key=filtered_calls, reverse=True): stable, descending
SortedDesc(tokens) == SortFrom(<<>>, tokens)

\* sorted_tokens[:3]
TopTokens(data) == Prefix(SortedDesc(FilterTokens(data)), TopN)

(* ---------------- ranking inputs ---------------- *)
\* q qualifying calls, optionally followed by one call at the threshold; and a
\* list whose only call has no win_rate key
CallLists ==
    {Rep(Call(WinRateThreshold + 1), q) \o x :
        q \in 0..MaxCalls, x \in {<<>>, <<Call(WinRateThreshold)>>}}
        \cup {<<CallNoKey>>}

TokenShapes ==
    {[has_calls |-> TRUE, channel_calls |-> c] : c \in CallLists}
        \cup {[has_calls |-> FALSE, channel_calls |-> <<>>]}

\* the provider's list: the symbol of a record is its position in the list
MkData(shapes) ==
    [i \in 1..Len(shapes) |->
        [symbol |-> i, has_calls |-> shapes[i].has_calls,
         channel_calls |-> shapes[i].channel_calls]]

(* ---------------- state ---------------- *)
VARIABLES
    pc,           \* position of main: "start", "auth", "fetch", "generate", "send", "done"
    env,          \* which credentials the environment supplies
    tweetDef,     \* the definition of safe_tweet_with_retry in force: 23 or 100
    topDef,       \* the definition of get_top_tokens in force: 74 or 176
    top_3,        \* main's top_3: None or the list get_top_tokens returned
    tweet_text,   \* main's tweet_text: None or the post generate_ai_tweet returned
    ai_response,  \* the completion text of the latest LLM call
    attempt,      \* loop variable of the retry loop being executed
    now,          \* time.time()
    trace,        \* external calls and sleeps of the run, in order
    sendRes,      \* how safe_tweet_with_retry ended
    result,       \* how main ended: "running", "returned", "raised"
    data,         \* the provider's list as parsed from the payload
    ranked,       \* ranking check: what the filter/sort/cap returned
    body,         \* normalisation check: the stripped body
    post          \* normalisation check: the final post text

vars == <<pc, env, tweetDef, topDef, top_3, tweet_text, ai_response, attempt, now,
          trace, sendRes, result, data, ranked, body, post>>

None == [some |-> FALSE, v |-> <<>>]

Some(x) == [some |-> TRUE, v |-> x]

\* Python truthiness of None-or-sequence
Truthy(x) == x.some /\ x.v # <<>>

Now0 == 1000

Ev(e, o, s) == [ev |-> e, out |-> o, secs |-> s, reset |-> 0, at |-> 0]

Pending == [status |-> "pending", err |-> "none"]

\* the four Twitter credentials (lines 66-69) and the module's openai_client
\* (lines 12-56), which is set only when OPENAI_API_KEY is present
TwitterKeys == {"api_key", "api_secret", "access_token", "access_token_secret"}

EnvNames == TwitterKeys \cup {"openai_client"}

Idle(at, text) ==
    /\ pc = at /\ env = [k \in EnvNames |-> TRUE]
    /\ tweetDef = 100 /\ topDef = 176
    /\ top_3 = None /\ tweet_text = None /\ ai_response = text
    /\ attempt = 0 /\ now = Now0 /\ trace = <<>>
    /\ sendRes = Pending /\ result = "running"

Init ==
    /\ pc = "start"
    /\ env \in [EnvNames -> BOOLEAN]
    /\ tweetDef \in {23, 100}
    /\ topDef \in {74, 176}
    /\ top_3 = None /\ tweet_text = None /\ ai_response = <<>>
    /\ attempt = 0 /\ now = Now0 /\ trace = <<>>
    /\ sendRes = Pending /\ result = "running"
    /\ data = <<>> /\ ranked = <<>> /\ body = <<>> /\ post = <<>>

\* main returns normally at this point
Return ==
    /\ pc' = "done"
    /\ result' = "returned"

(* ---------------- inputs of a run ---------------- *)
\* completions the LLM returns in a run: empty, blank, label only, short, at the
\* body limit, one past it, and longer than the post limit
MainCompletions ==
    {l \o Body(n) : l \in {<<>>, LabelTweet},
                    n \in {0, 1, max_text_length - 1, max_text_length,
                            max_text_length + 1, TweetLimit, MaxTextLen}}
        \cup {<<" ">>, <<" ", "NL">> \o Body(MaxTextLen) \o <<" ">>}

QualShape(q) ==
    [has_calls |-> TRUE, channel_calls |-> Rep(Call(WinRateThreshold + 1), q)]

\* provider lists of a run: empty, one record, MaxRecords records; no record or
\* every record qualifies
MainData == {MkData(Rep(QualShape(q), n)) : q \in 0..1, n \in {0, 1, MaxRecords}}

\* x-rate-limit-reset header values; 0 is what a missing header reads as
Resets(t) == {0, t + 100, t + 241}

(* ---------------- main: startup, lines 286-329 ---------------- *)
KeysPresentMut(e) == e.api_key /\ e.api_secret /\ e.access_token

\* all([api_key, api_secret, access_token, access_token_secret])
KeysPresent(e) == e.api_key /\ e.api_secret /\ e.access_token /\ e.access_token_secret

\* if not all([api_key, ...]): return ; if not openai_client: return
main_check_keys ==
    /\ pc = "start"
    /\ IF KeysPresent(env) /\ env.openai_client
       THEN pc' = "auth" /\ UNCHANGED result
       ELSE Return
    /\ UNCHANGED <<env, tweetDef, topDef, top_3, tweet_text, ai_response, attempt, now,
                   trace, sendRes, data, ranked, body, post>>

\* client = tweepy.Client(...); me = client.get_me(); any exception: log, return
main_get_me ==
    /\ pc = "auth"
    /\ \E ok \in BOOLEAN :
        /\ trace' = Append(trace, Ev("get_me", IF ok THEN "ok" ELSE "error", 0))
        /\ IF ok THEN pc' = "fetch" /\ UNCHANGED result ELSE Return
    /\ UNCHANGED <<env, tweetDef, topDef, top_3, tweet_text, ai_response, attempt, now,
                   sendRes, data, ranked, body, post>>

(* ---------------- get_top_tokens and main lines 335-339 ---------------- *)
AfterTopMut(t3) ==
    /\ top_3' = t3
    /\ IF t3.some THEN pc' = "generate" /\ UNCHANGED result ELSE Return

\* main after top_3 = get_top_tokens(): if not top_3: return
AfterTop(t3) ==
    /\ top_3' = t3
    /\ IF Truthy(t3) THEN pc' = "generate" /\ UNCHANGED result ELSE Return

\* requests.get / raise_for_status fail with a RequestException: both definitions
\* log and return None
FetchHttpError ==
    /\ trace' = Append(trace, Ev("get", "http_error", 0))
    /\ AfterTop(None)
    /\ UNCHANGED data

FetchOk(d) ==
    /\ trace' = Append(trace, Ev("get", "ok", 0))
    /\ data' = d
    /\ AfterTop(Some(TopTokens(d)))

\* lines 74-93: except Exception, so a payload that is no list of records
\* (AttributeError, TypeError) also yields None
get_top_tokens_74 ==
    /\ pc = "fetch" /\ topDef = 74
    /\ \/ FetchHttpError
       \/ \E d \in MainData : FetchOk(d)
       \/ /\ trace' = Append(trace, Ev("get", "bad_payload", 0))
          /\ AfterTop(None)
          /\ UNCHANGED data
    /\ UNCHANGED <<env, tweetDef, topDef, tweet_text, ai_response, attempt, now,
                   sendRes, ranked, body, post>>

\* lines 176-214: except requests.exceptions.RequestException only, so the error
\* of a bad payload leaves get_top_tokens and, uncaught in main, leaves main
get_top_tokens_176 ==
    /\ pc = "fetch" /\ topDef = 176
    /\ \/ FetchHttpError
       \/ \E d \in MainData : FetchOk(d)
       \/ /\ trace' = Append(trace, Ev("get", "bad_payload", 0))
          /\ pc' = "done" /\ result' = "raised"
          /\ UNCHANGED <<top_3, data>>
    /\ UNCHANGED <<env, tweetDef, topDef, tweet_text, ai_response, attempt, now,
                   sendRes, ranked, body, post>>

(* ---------------- generate_ai_tweet, lines 95-284, and main 341-349 ------- *)
GenRetriesMut(a) == a < GenMaxRetries - 2

GenRetriesOffByOne(a) == a < GenMaxRetries

\* line 263: if attempt < max_retries - 1: sleep, else raise
GenRetries(a) == a < GenMaxRetries - 1

\* line 264: time.sleep(5)
GenSleepSecs(a) == GenSleep

GenFailedMut ==
    IF attempt < GenMaxRetries - 1
    THEN /\ trace' = Append(trace, Ev("llm", "failed", 0))
         /\ attempt' = attempt + 1
         /\ UNCHANGED <<pc, result, tweet_text, now>>
    ELSE /\ trace' = Append(trace, Ev("llm", "failed", 0))
         /\ tweet_text' = None
         /\ Return
         /\ UNCHANGED <<now, attempt>>

\* the except clause of one attempt (lines 257-269); on the last attempt the
\* error is re-raised into the outer handler (271-284), which returns None, and
\* main (345-349) returns
GenFailed ==
    IF GenRetries(attempt)
    THEN /\ trace' = trace \o <<Ev("llm", "failed", 0), Ev("sleep", "generate", GenSleepSecs(attempt))>>
         /\ now' = now + GenSleepSecs(attempt)
         /\ attempt' = attempt + 1
         /\ UNCHANGED <<pc, result, tweet_text>>
    ELSE /\ trace' = Append(trace, Ev("llm", "failed", 0))
         /\ tweet_text' = None
         /\ Return
         /\ UNCHANGED <<now, attempt>>

\* lines 233-255: the post is returned; main (345-357) goes on to send it
GenSucceeded(text) ==
    /\ trace' = Append(trace, Ev("llm", "text", 0))
    /\ tweet_text' = Some(BuildPost(text))
    /\ IF Truthy(Some(BuildPost(text)))
       THEN pc' = "send" /\ attempt' = 0 /\ UNCHANGED result
       ELSE Return /\ UNCHANGED attempt
    /\ UNCHANGED now

\* the loop ran out without a return or a raise: the function ends, which
\* returns None, and main (345-349) returns
GenLoopEnd ==
    /\ tweet_text' = None
    /\ Return
    /\ UNCHANGED <<ai_response, trace, attempt, now>>

\* one pass of the retry loop (lines 197-269), or its end
generate_ai_tweet ==
    /\ pc = "generate"
    /\ IF attempt < GenMaxRetries
       THEN \/ \* the completion call raises (transport or provider error)
               /\ ai_response' = <<>>
               /\ GenFailed
            \/ \E text \in MainCompletions :
               /\ ai_response' = text
               /\ IF Strip(text) = <<>>       \* if not ai_response: raise ValueError
                  THEN GenFailed
                  ELSE GenSucceeded(text)
       ELSE GenLoopEnd
    /\ UNCHANGED <<env, tweetDef, topDef, top_3, sendRes, data, ranked, body, post>>

(* ---------------- safe_tweet_with_retry and main 354-378 ---------------- *)
wait_timeMut(reset_time, current_time) ==
    Min(reset_time - current_time + RateSlack, MinRateWait)

\* wait_time = max(reset_time - current_time + 60, 300)
wait_time(reset_time, current_time) ==
    Max(reset_time - current_time + RateSlack, MinRateWait)

RateRetriesMut(a) == a < TweetMaxRetries

\* if attempt < max_retries - 1: time.sleep(wait_time) else: raise e
RateRetries(a) == a < TweetMaxRetries - 1

OtherRaisesMut(a) == a = TweetMaxRetries

\* if attempt == max_retries - 1: raise e
OtherRaises(a) == a = TweetMaxRetries - 1

\* time.sleep(30)
OtherSleepSecs == OtherSleep

\* the error leaves safe_tweet_with_retry; main's handler (375-378) logs it and
\* main runs to its end
SendRaise(evs, kind) ==
    /\ trace' = trace \o evs
    /\ sendRes' = [status |-> "raised", err |-> kind]
    /\ Return
    /\ UNCHANGED <<attempt, now>>

\* sleep and go round the loop again
SendSleep(evs, secs) ==
    /\ trace' = trace \o evs \o <<Ev("sleep", "send", secs)>>
    /\ now' = now + secs
    /\ attempt' = attempt + 1
    /\ UNCHANGED <<pc, result, sendRes>>

TweetEv(o) == Ev("create_tweet", o, 0)

\* return response; main reads the id, logs the permalink and ends
SendOk ==
    /\ trace' = Append(trace, TweetEv("ok"))
    /\ sendRes' = [status |-> "returned", err |-> "none"]
    /\ Return
    /\ UNCHANGED <<attempt, now>>

\* except tweepy.TooManyRequests (lines 29-37, 127-152)
SendRateLimited(reset_time) ==
    LET e == [TweetEv("rate_limit") EXCEPT !.reset = reset_time, !.at = now]
        w == wait_time(reset_time, now)
    IN  IF RateRetries(attempt)
        THEN SendSleep(<<e>>, w)
        ELSE SendRaise(<<e>>, "rate_limit")

\* except Exception (lines 38-42, 158-164)
SendOtherError(kind) ==
    IF OtherRaises(attempt)
    THEN SendRaise(<<TweetEv(kind)>>, kind)
    ELSE SendSleep(<<TweetEv(kind)>>, OtherSleepSecs)

\* except (tweepy.Forbidden, tweepy.BadRequest): raise e (lines 153-157)
SendFatal(kind) == SendRaise(<<TweetEv(kind)>>, kind)

\* the loop ran out: return None (lines 72, 165); main (362-373) finds the
\* response falsy, logs the failed send and ends
SendLoopEnd ==
    /\ sendRes' = [status |-> "returned_none", err |-> "none"]
    /\ Return
    /\ UNCHANGED <<trace, attempt, now>>

\* errors of create_tweet that are neither rate limit, Forbidden nor BadRequest;
\* "no_id": the post was accepted and reading response.data['id'] for the log
\* line, inside the try block, raised
OtherErrors == {"other", "no_id"}

FatalErrors == {"forbidden", "bad_request"}

\* one pass of the loop of lines 23-42, or its end: no handler for Forbidden and BadRequest,
\* which fall to except Exception
safe_tweet_with_retry_23 ==
    /\ pc = "send" /\ tweetDef = 23
    /\ IF attempt < TweetMaxRetries
       THEN \/ SendOk
            \/ \E r \in Resets(now) : SendRateLimited(r)
            \/ \E k \in FatalErrors \cup OtherErrors : SendOtherError(k)
       ELSE SendLoopEnd
    /\ UNCHANGED <<env, tweetDef, topDef, top_3, tweet_text, ai_response,
                   data, ranked, body, post>>

\* one pass of the loop of lines 100-165, or its end
safe_tweet_with_retry_100 ==
    /\ pc = "send" /\ tweetDef = 100
    /\ IF attempt < TweetMaxRetries
       THEN \/ SendOk
            \/ \E r \in Resets(now) : SendRateLimited(r)
            \/ \E k \in FatalErrors : SendFatal(k)
            \/ \E k \in OtherErrors : SendOtherError(k)
       ELSE SendLoopEnd
    /\ UNCHANGED <<env, tweetDef, topDef, top_3, tweet_text, ai_response,
                   data, ranked, body, post>>

Next ==
    \/ main_check_keys
    \/ main_get_me
    \/ get_top_tokens_74
    \/ get_top_tokens_176
    \/ generate_ai_tweet
    \/ safe_tweet_with_retry_23
    \/ safe_tweet_with_retry_100

Spec == Init /\ [][Next]_vars

\* the run is one sequential thread: as long as a step is left and every
\* external call and sleep returns, the next step is taken
SpecFair == Spec /\ WF_vars(Next)

(* ---------------- the ranking of get_top_tokens on every provider list ------ *)
InitRank ==
    /\ Idle("rank", <<>>)
    /\ \E n \in 0..MaxRecords : \E sh \in [1..n -> TokenShapes] : data = MkData(sh)
    /\ ranked = <<>> /\ body = <<>> /\ post = <<>>

\* lines 80-90 applied to the parsed payload
RankTokens ==
    /\ pc = "rank"
    /\ ranked' = TopTokens(data)
    /\ pc' = "ranked"
    /\ UNCHANGED <<env, tweetDef, topDef, top_3, tweet_text, ai_response, attempt, now,
                   trace, sendRes, result, data, body, post>>

SpecRank == InitRank /\ [][RankTokens]_vars

(* ---------------- the post construction on every completion ---------------- *)
InitNorm ==
    /\ \E l \in Leads, n \in 0..MaxTextLen, t \in Trails :
        /\ Strip(Completion(l, n, t)) # <<>>
        /\ Idle("normalize", Completion(l, n, t))
    /\ data = <<>> /\ ranked = <<>> /\ body = <<>> /\ post = <<>>

\* lines 233-255 applied to a completion that passed the emptiness test
NormalizePost ==
    /\ pc = "normalize"
    /\ body' = StripLabels(ai_response)
    /\ post' = BuildPost(ai_response)
    /\ pc' = "normalized"
    /\ UNCHANGED <<env, tweetDef, topDef, top_3, tweet_text, ai_response, attempt, now,
                   trace, sendRes, result, data, ranked>>

SpecNorm == InitNorm /\ [][NormalizePost]_vars

(* ======================= properties ======================= *)
Events(e) == {i \in DOMAIN trace : trace[i].ev = e}

Llm(o) == {i \in Events("llm") : trace[i].out = o}

Tweets(o) == {i \in Events("create_tweet") : trace[i].out = o}

GenSleeps == {i \in Events("sleep") : trace[i].out = "generate"}

SendSleeps == {i \in Events("sleep") : trace[i].out = "send"}

\* the number of create_tweet calls made up to and including event i
TweetNo(i) == Cardinality({j \in Events("create_tweet") : j <= i})

\* C1: the post generate_ai_tweet returns, which is what main hands to
\* safe_tweet_with_retry, is never longer than 280 characters, whatever the
\* length of the completion
C1_PostWithinLimit ==
    /\ tweet_text.some => Len(tweet_text.v) <= TweetLimit
    /\ (pc = "send" \/ Events("create_tweet") # {}) => tweet_text.some

C1_Witness ==
    /\ pc = "send"
    /\ Len(ai_response) > TweetLimit
    /\ Len(tweet_text.v) = TweetLimit

\* C2: a create_tweet attempt that fails with Forbidden or BadRequest is the last
\* thing safe_tweet_with_retry does: no sleep and no further create_tweet follow
\* it, and the error is what the caller gets
C2_FatalPropagatesAtOnce ==
    \A i \in Tweets("forbidden") \cup Tweets("bad_request") :
        /\ i = Len(trace)
        /\ sendRes = [status |-> "raised", err |-> trace[i].out]

\* C3: create_tweet is called only after a ranking fetch that returned a
\* non-empty selection and, after it, a completion that produced a post; no LLM
\* call and no create_tweet follow a fetch that failed or selected nothing; no
\* create_tweet follows a generation that used up its attempts
C3_StagesInOrder ==
    /\ \A i \in Events("create_tweet") :
        \E g \in Events("get"), l \in Llm("text") :
            /\ g < l /\ l < i
            /\ trace[g].out = "ok"
            /\ Truthy(top_3) /\ tweet_text.some
    /\ \A l \in Events("llm") :
        \E g \in Events("get") : g < l /\ trace[g].out = "ok" /\ Truthy(top_3)
    /\ (Events("get") # {} /\ ~Truthy(top_3)) =>
            Events("llm") = {} /\ Events("create_tweet") = {} /\ pc = "done"
    /\ (pc # "generate" /\ Events("llm") # {} /\ Llm("text") = {}) =>
            Events("create_tweet") = {} /\ pc = "done"
    /\ Cardinality(Events("get")) <= 1

C3_Witness ==
    /\ Tweets("ok") # {}
    /\ Llm("failed") # {}
    /\ Len(top_3.v) = TopN

\* C4: when no attempt yields a non-blank completion, generate_ai_tweet has made
\* exactly 3 completion calls when it ends, it ends by returning None, and main
\* goes on normally (no error left generate_ai_tweet)
C4_ExhaustionReturnsNone ==
    /\ Cardinality(Events("llm")) <= GenMaxRetries
    /\ (pc # "generate" /\ Events("llm") # {} /\ Llm("text") = {}) =>
        /\ Cardinality(Llm("failed")) = 3
        /\ tweet_text = None
        /\ result = "returned"

C4_Witness ==
    /\ pc = "done"
    /\ Cardinality(Llm("failed")) = 3
    /\ tweet_text = None
    /\ ai_response # <<>>

\* C5: a rate-limited create_tweet attempt that is the 1st or 2nd call is followed
\* by one sleep of max(reset_time - now + 60, 300) seconds (never under 300, also
\* for a missing header read as 0) and then by the next attempt; one that is the
\* 3rd call is followed by nothing, and the rate-limit error reaches the caller
C5_RateLimitBackoff ==
    \A i \in Tweets("rate_limit") :
        LET hint == trace[i].reset - trace[i].at + 60
        IN  IF TweetNo(i) < 3
            THEN /\ i < Len(trace)
                 /\ trace[i + 1].ev = "sleep" /\ trace[i + 1].out = "send"
                 /\ trace[i + 1].secs >= 300 /\ trace[i + 1].secs >= hint
                 /\ trace[i + 1].secs \in {300, hint}
                 /\ IF Len(trace) = i + 1
                    THEN pc = "send" /\ attempt = TweetNo(i) /\ sendRes = Pending
                    ELSE trace[i + 2].ev = "create_tweet"
            ELSE /\ i = Len(trace)
                 /\ sendRes = [status |-> "raised", err |-> "rate_limit"]

C5_Witness ==
    /\ sendRes = [status |-> "raised", err |-> "rate_limit"]
    /\ Cardinality(Tweets("rate_limit")) = 3
    /\ \E i \in SendSleeps : trace[i].secs > 300
    /\ \E i \in Tweets("rate_limit") : trace[i].reset = 0 /\ trace[i + 1].secs = 300

\* C6: a create_tweet attempt that fails with an error that is neither rate
\* limit, Forbidden nor BadRequest is followed, when it is the 1st or 2nd call, by
\* one sleep of 30 seconds and then the next attempt, and when it is the 3rd call
\* by nothing: the error reaches the caller.  No invocation calls create_tweet
\* more than 3 times
C6_OtherErrorRetry ==
    /\ Cardinality(Events("create_tweet")) <= 3
    /\ \A i \in Tweets("other") \cup Tweets("no_id") :
        IF TweetNo(i) < 3
        THEN /\ i < Len(trace)
             /\ trace[i + 1] = Ev("sleep", "send", 30)
             /\ IF Len(trace) = i + 1
                THEN pc = "send" /\ attempt = TweetNo(i) /\ sendRes = Pending
                ELSE trace[i + 2].ev = "create_tweet"
        ELSE /\ i = Len(trace)
             /\ sendRes = [status |-> "raised", err |-> trace[i].out]

C6_Witness ==
    /\ Cardinality(Tweets("other")) = 3
    /\ sendRes = [status |-> "raised", err |-> "other"]
    /\ Cardinality(SendSleeps) = 2

\* C9: when a completion yields a post, it is the last completion call of the
\* run; the k calls before it (k <= 2) all failed, each failed call is followed
\* by exactly one sleep and then the next call, so k sleeps in all; and the post
\* returned is the one built from that completion
C9_SuccessAfterFailures ==
    \A l \in Llm("text") :
        /\ \A j \in Events("llm") : j <= l
        /\ \A j \in Events("llm") : j < l =>
                /\ trace[j].out = "failed"
                /\ trace[j + 1].ev = "sleep" /\ trace[j + 1].out = "generate"
                /\ trace[j + 2].ev = "llm"
        /\ Cardinality(GenSleeps) = Cardinality(Llm("failed"))
        /\ Cardinality(Llm("failed")) <= 2
        /\ \A sl \in GenSleeps : sl < l
        /\ tweet_text = Some(BuildPost(ai_response))

C9_Witness ==
    /\ Llm("text") # {}
    /\ Cardinality(GenSleeps) = 2
    /\ Cardinality(Llm("failed")) = 2
    /\ pc = "send"

\* C10: the sleep after the 2nd failed completion call is strictly longer than
\* the sleep after the 1st
C10_BackoffIncreases ==
    \A i, j \in GenSleeps : i < j => trace[i].secs < trace[j].secs

\* C7: what get_top_tokens returns holds only records with at least one call of
\* win_rate > 30, in descending order of that count, records of equal count in
\* provider order, at most 3 of them: the first 3 of the survivors so ordered
Qualifying(token) ==
    IF token.has_calls
    THEN Cardinality({k \in DOMAIN token.channel_calls :
            token.channel_calls[k].has_win_rate /\ token.channel_calls[k].win_rate > 30})
    ELSE 0

Survivors == {i \in DOMAIN data : Qualifying(data[i]) > 0}

\* record i of the provider's list comes before record j in the ranking
Before(i, j) ==
    \/ Qualifying(data[i]) > Qualifying(data[j])
    \/ Qualifying(data[i]) = Qualifying(data[j]) /\ i < j

C7_TopTokens ==
    pc = "ranked" =>
        /\ Len(ranked) <= 3
        /\ Len(ranked) = Min(3, Cardinality(Survivors))
        /\ \A k \in DOMAIN ranked :
            /\ ranked[k].symbol \in Survivors
            /\ ranked[k].channel_calls = data[ranked[k].symbol].channel_calls
            /\ ranked[k].filtered_calls = Qualifying(data[ranked[k].symbol])
        /\ \A k, m \in DOMAIN ranked : k < m =>
            /\ ranked[k].filtered_calls >= ranked[m].filtered_calls
            /\ Before(ranked[k].symbol, ranked[m].symbol)
        /\ \A i \in Survivors :
            (\A k \in DOMAIN ranked : ranked[k].symbol # i) =>
                \A k \in DOMAIN ranked : Before(ranked[k].symbol, i)

C7_Witness ==
    /\ pc = "ranked"
    /\ Cardinality(Survivors) = 4
    /\ Len(ranked) = 3
    /\ ranked[1].symbol = 4
    /\ ranked[2].filtered_calls = ranked[3].filtered_calls

\* C8: with b the stripped body and s the suffix: if len(b) <= 280 - len(s) the
\* post is b + s, otherwise it is b[:280 - len(s) - 3] + "..." + s and has length
\* exactly 280; either way the post ends with the whole suffix
C8_Normalization ==
    pc = "normalized" =>
        LET b == body
            s == link_to_add
            keep == 280 - Len(s) - 3
        IN  /\ IF Len(b) <= 280 - Len(s)
               THEN post = b \o s
               ELSE /\ Len(post) = 280
                    /\ \A i \in 1..keep : post[i] = b[i]
                    /\ \A i \in (keep + 1)..(keep + 3) : post[i] = "."
            /\ Len(post) >= Len(s)
            /\ SubSeq(post, Len(post) - Len(s) + 1, Len(post)) = s

C8_Witness ==
    /\ pc = "normalized"
    /\ Len(body) > 280 - Len(link_to_add)
    /\ Len(post) = 280
    /\ Len(ai_response) > Len(body)

\* C11: when one of the four Twitter credentials or the OpenAI key is absent,
\* the run makes no external call at all (no get_me, no ranking GET, no
\* completion, no create_tweet) and does nothing but return
C11_NoCallWithoutKeys ==
    (\E k \in EnvNames : ~env[k]) =>
        /\ trace = <<>>
        /\ pc \in {"start", "done"}
        /\ pc = "done" => result = "returned"
        /\ top_3 = None /\ tweet_text = None /\ sendRes = Pending

C11_Witness ==
    /\ pc = "done"
    /\ ~env.access_token_secret
    /\ \A k \in EnvNames \ {"access_token_secret"} : env[k]
    /\ trace = <<>>

\* C12: whatever the external calls do, main ends by returning: no error leaves
\* main
C12_MainReturnsNormally ==
    /\ result # "raised"
    /\ pc = "done" => result = "returned"

\* C13 as stated: for a provider list that is empty or has no record with a
\* qualifying call, get_top_tokens returns None, the value it returns when the
\* GET fails
C13_EmptySelectionIsNone ==
    \A g \in Events("get") : (trace[g].out = "ok" /\ Survivors = {}) => top_3 = None

\* C13 as amended: for such a list get_top_tokens returns the empty list, and
\* None when the GET fails; main treats the two alike: it returns without an LLM
\* call and without a create_tweet call
C13_EmptySelectionSkipsRun ==
    \A g \in Events("get") :
        /\ (trace[g].out = "ok" /\ Survivors = {}) => top_3 = Some(<<>>)
        /\ (trace[g].out = "ok" /\ Survivors # {}) => Truthy(top_3)
        /\ trace[g].out = "http_error" => top_3 = None
        /\ ((trace[g].out = "ok" /\ Survivors = {}) \/ trace[g].out = "http_error") =>
            /\ pc = "done" /\ result = "returned"
            /\ Events("llm") = {} /\ Events("create_tweet") = {}
            /\ g = Len(trace)

C13_Witness ==
    /\ Events("get") # {}
    /\ Len(data) = MaxRecords
    /\ Survivors = {}
    /\ top_3 = Some(<<>>)
    /\ pc = "done"

\* C14: safe_tweet_with_retry never ends by returning None: while it runs there
\* is always a pass of the loop left, and it ends either with the response of
\* the create_tweet call it made last, which succeeded, or with an error; main's
\* branch for a falsy response is never taken
C14_NeverReturnsNone ==
    /\ sendRes.status # "returned_none"
    /\ pc = "send" => attempt < TweetMaxRetries /\ sendRes = Pending
    /\ (pc = "done" /\ Events("create_tweet") # {}) =>
            sendRes.status \in {"returned", "raised"}
    /\ sendRes.status = "returned" => trace[Len(trace)] = TweetEv("ok")
    /\ sendRes.status = "raised" =>
            trace[Len(trace)].ev = "create_tweet" /\ trace[Len(trace)].out = sendRes.err

C14_Witness ==
    /\ pc = "done"
    /\ Cardinality(Events("create_tweet")) = 3
    /\ Cardinality(Tweets("rate_limit")) = 2
    /\ sendRes.status = "returned"

\* C15: once a create_tweet call has been accepted by the platform (also when
\* reading the id of its response then fails), the run makes no further
\* create_tweet call
C15_AtMostOnePost ==
    \A i \in Tweets("ok") \cup Tweets("no_id") :
        \A j \in Events("create_tweet") : j <= i

\* C16: every run of main ends, and it makes at most 1 get_me call, 1 ranking
\* GET, 3 completion calls and 3 create_tweet calls, with at most 2 sleeps in
\* the generation stage and at most 2 in the publish stage
C16_CallBounds ==
    /\ Cardinality(Events("get_me")) <= 1
    /\ Cardinality(Events("get")) <= 1
    /\ Cardinality(Events("llm")) <= 3
    /\ Cardinality(Events("create_tweet")) <= 3
    /\ Cardinality(GenSleeps) <= 2
    /\ Cardinality(SendSleeps) <= 2
    /\ Cardinality(Events("sleep")) = Cardinality(GenSleeps) + Cardinality(SendSleeps)

C16_TerminatesWithinBounds == []C16_CallBounds /\ <>[](pc = "done")

C16_Witness ==
    /\ pc = "done"
    /\ Cardinality(Events("get_me")) = 1
    /\ Cardinality(Events("get")) = 1
    /\ Cardinality(Events("llm")) = 3
    /\ Cardinality(Events("create_tweet")) = 3
    /\ Cardinality(GenSleeps) = 2
    /\ Cardinality(SendSleeps) = 2

\* C17: in every post generate_ai_tweet returns, the body in front of the suffix
\* is non-empty and does not begin with the label "Tweet:" or "MAIN_TWEET:"
HasPrefix(s, pat) == Len(s) >= Len(pat) /\ SubSeq(s, 1, Len(pat)) = pat

PostBody == SubSeq(tweet_text.v, 1, Len(tweet_text.v) - Len(link_to_add))

C17_BodyNonEmptyUnlabelled ==
    tweet_text.some =>
        /\ PostBody # <<>>
        /\ ~HasPrefix(PostBody, LabelTweet)
        /\ ~HasPrefix(PostBody, LabelMain)

====
